---- MODULE Spec2Model ----
(***************************************************************************)
(* The game session of bindolo_notepad: the roster `usersdb`, the global   *)
(* `app_state`, the two locks USERS_LOCK and STATE_LOCK, and the request   *)
(* handlers landing, set_user_ready (with check_readiness), play_submit    *)
(* and reading_restart, each run by a request thread.  A handler is cut    *)
(* into one step per lock acquisition: what a thread does while it holds a *)
(* lock is invisible to the others, what happens between two `with`        *)
(* blocks is not.                                                          *)
(***************************************************************************)
EXTENDS Integers, Sequences, FiniteSets, TLC

\* ---------------------------------------------------------------- bounds
NumThreads == 2
NumNames == 4
\* rounds a run may start: calls one at a time, and concurrent calls
MaxRounds == 4
ConcRounds == 2
\* rounds a run may start when every submit is recorded with a body that may
\* be blank
TextRounds == 1

\* ------------------------------------------------------------- constants
MINIMUM_PLAYERS == 3

Threads == 1..NumThreads
Names == 1..NumNames

\* Optional values: None, or Some(x).
None == << >>
Some(x) == <<x>>

\* A string is the sequence of its characters.
SP == " "
\* the strings requests carry: empty, blank, and with content
Texts == { << >>, <<SP>>, <<"a">> }
\* the strings concurrent requests carry
ConcTexts == { << >>, <<"a">> }
\* a request field: absent, or one of the strings
Fields(T) == {None} \cup {Some(x) : x \in T}

\* UserState
ENTERING == "entering"
READY == "ready"
PLAYER == "player"
READER == "reader"

\* GameState
WAITING_FOR_NEW_PLAYERS == "waiting_for_new_players"
WAITING_FOR_PLAYERS == "waiting_for_players"
GAME_WAITING_FOR_DEFINITIONS == "game_waiting_for_definitions"
GAME_WAITING_FOR_DECISION_IRL == "game_waiting_for_decision_irl"

\* UserInfo(): the entry a registration creates
UserInfo(n) == [name |-> n, state |-> ENTERING, text |-> << >>]

\* AppState(): the session at process start
AppState == [state |-> WAITING_FOR_NEW_PLAYERS, word |-> None,
             reader_order |-> None, reader_idx |-> 0]

VARIABLES
  usersdb,      \* the roster, a dict in insertion order: sequence of entries
  app_state,    \* the session record
  USERS_LOCK,   \* 0 when free, else the thread that holds it
  STATE_LOCK,   \* 0 when free, else the thread that holds it
  th,           \* per request thread: position in its handler and its locals
  rounds        \* number of times the phase was set to GAME_WAITING_FOR_DEFINITIONS

vars == <<usersdb, app_state, USERS_LOCK, STATE_LOCK, th, rounds>>

\* --------------------------------------------------------- pure helpers

\* str.strip(): drop leading and trailing whitespace
RECURSIVE LStrip(_)
LStrip(s) == IF s # << >> /\ Head(s) = SP THEN LStrip(Tail(s)) ELSE s

RECURSIVE RStrip(_)
RStrip(s) ==
  IF s # << >> /\ s[Len(s)] = SP THEN RStrip(SubSeq(s, 1, Len(s) - 1)) ELSE s

Strip(s) == RStrip(LStrip(s))

\* truthiness of `x and str(x).strip()` for an optional string
Filled(opt) == opt # None /\ opt[1] # << >> /\ Strip(opt[1]) # << >>

\* truthiness of a request field: `not word` is true for None and for ""
Truthy(opt) == opt # None /\ opt[1] # << >>

\* list(usersdb.keys())
Keys(db) == [i \in 1..Len(db) |-> db[i].name]

KeySet(db) == {db[i].name : i \in 1..Len(db)}

\* usersdb.get(username): the position of the entry, 0 for None
Get(db, n) == IF n \in KeySet(db) THEN CHOOSE i \in 1..Len(db) : db[i].name = n ELSE 0

\* user.state = s for the user at position i
SetState(db, i, s) == [db EXCEPT ![i].state = s]

\* a store that adds to the text already there
SetTextAppend(db, i, t) == [db EXCEPT ![i].text = @ \o t]

\* user.text = t for the user at position i
SetText(db, i, t) == [db EXCEPT ![i].text = t]

\* the request a thread serves, where requests are recorded: the session's
\* username and the `text` and `word` fields of the body
NoCall == [who |-> 0, text |-> None, word |-> None]

\* a thread between two requests; a local is kept only while the handler
\* still reads it. `call` and `again` belong to the client: the request as it
\* was sent, and whether it is the previous request sent once more.
\* `player_texts` is a shuffled list, held as the number of times each text
\* is in it.
IdleThread ==
  [pc |-> "idle", op |-> "none", username |-> 0, role |-> "none",
   text |-> None, word |-> None, reader |-> 0, i |-> 0,
   status |-> "none", flag |-> FALSE, call |-> NoCall, again |-> FALSE,
   player_texts |-> << >>]

\* a handler returns: the locals are dropped. With `keep` the reply (its
\* status and its boolean: accepted, started or move) is held at "done" until
\* it is sent; without it the thread is free at once.
Reply(keep, oper, code, b) ==
  IF keep THEN [IdleThread EXCEPT !.pc = "done", !.op = oper,
                                  !.status = code, !.flag = b]
          ELSE IdleThread

\* the same, for a thread `old` whose request was recorded
ReplyOf(old, keep, oper, code, b) ==
  IF keep THEN [Reply(keep, oper, code, b) EXCEPT !.call = old.call,
                                                  !.again = old.again]
          ELSE IdleThread

\* Usernames are opaque keys: the handlers only compare them for equality.
\* A request names a user of the roster, a user whose registration is under
\* way, or the first name not yet used, which stands for every unused name.
Pending == {th[t].username : t \in {x \in Threads : th[x].pc = "landing_insert"}}

Used == KeySet(usersdb) \cup Pending

Callers == Used \cup {n \in Names : \A m \in Names \ Used : n <= m}

\* the callers that are not in the roster
Unknown == Callers \ KeySet(usersdb)

\* the roles held in the roster
RolesHeld(db) == {db[i].state : i \in 1..Len(db)}

\* usersdb.get(username).state, "none" when there is no such user
RoleOf(db, n) == IF n \in KeySet(db) THEN db[Get(db, n)].state ELSE "none"

\* the users of the roster that hold role r
Holders(db, r) == {db[i].name : i \in {j \in 1..Len(db) : db[j].state = r}}

Init ==
  /\ usersdb = << >>
  /\ app_state = AppState
  /\ USERS_LOCK = 0
  /\ STATE_LOCK = 0
  /\ th = [t \in Threads |-> IdleThread]
  /\ rounds = 0

\* ------------------------------------------------------ check_readiness

\* necessary_players and all_ready
ReadinessMet(db) ==
  /\ Len(db) >= MINIMUM_PLAYERS
  /\ Len(db) > 0
  /\ \A i \in 1..Len(db) : db[i].state = READY

\* idx = reader_idx % len(reader_order)
ReaderIdx(a) == a.reader_idx % Len(a.reader_order[1])

\* reader = reader_order[idx]
ChosenReader(a) == a.reader_order[1][ReaderIdx(a) + 1]

\* the rotation index counted up without wrapping
NextReaderIdxUnwrapped(a) == ReaderIdx(a) + 1

\* the rotation index left where it was
NextReaderIdxStuck(a) == ReaderIdx(a)

\* reader_idx = (idx + 1) % len(reader_order)
NextReaderIdx(a) == (ReaderIdx(a) + 1) % Len(a.reader_order[1])

\* the phase is set and the rotation advanced, under STATE_LOCK
StartRound(a) ==
  [a EXCEPT !.state = GAME_WAITING_FOR_DEFINITIONS, !.reader_idx = NextReaderIdx(a)]

\* the reader becomes READER, everybody else PLAYER
AssignRoles(db, reader) ==
  [i \in 1..Len(db) |->
     [db[i] EXCEPT !.state = IF db[i].name = reader THEN READER ELSE PLAYER]]

\* --------------------------------------------------------------- landing

\* POST /game/: the phase is read under STATE_LOCK, which is then released;
\* outside Registration the request is rejected whoever sends it
LandingRead(t, keep) ==
  /\ th[t].pc = "idle"
  /\ STATE_LOCK = 0
  /\ IF app_state.state # WAITING_FOR_NEW_PLAYERS
     THEN th' = [th EXCEPT ![t] = Reply(keep, "landing", "rejected", FALSE)]
     ELSE \E n \in Callers :
            th' = [th EXCEPT ![t] =
                     [IdleThread EXCEPT !.pc = "landing_insert",
                                        !.op = "landing", !.username = n]]
  /\ UNCHANGED <<usersdb, app_state, USERS_LOCK, STATE_LOCK, rounds>>

\* a registration that stores a fresh entry whether or not the user exists
RegisterAnew(db, n) ==
  IF Get(db, n) = 0 THEN Append(db, UserInfo(n))
                    ELSE [db EXCEPT ![Get(db, n)] = UserInfo(n)]

\* info = usersdb.get(username); if info is None: usersdb[username] = UserInfo()
Register(db, n) == IF Get(db, n) = 0 THEN Append(db, UserInfo(n)) ELSE db

\* the user is created under USERS_LOCK unless it exists
LandingInsert(t, keep) ==
  /\ th[t].pc = "landing_insert"
  /\ USERS_LOCK = 0
  /\ usersdb' = Register(usersdb, th[t].username)
  /\ th' = [th EXCEPT ![t] = Reply(keep, "landing", "accepted", TRUE)]
  /\ UNCHANGED <<app_state, USERS_LOCK, STATE_LOCK, rounds>>

\* -------------------------------------------------------- set_user_ready

\* POST /game/user/ready: the user is marked READY under USERS_LOCK; an
\* unknown user gets 404
ReadySet(t, maxr, keep) ==
  /\ th[t].pc = "idle"
  /\ USERS_LOCK = 0
  /\ rounds < maxr
  /\ \/ /\ Unknown # {}
        /\ th' = [th EXCEPT ![t] = Reply(keep, "ready", "404", FALSE)]
        /\ usersdb' = usersdb
     \/ \E n \in KeySet(usersdb) :
          /\ usersdb' = SetState(usersdb, Get(usersdb, n), READY)
          /\ th' = [th EXCEPT ![t] =
                      [IdleThread EXCEPT !.pc = "cr_snapshot", !.op = "ready"]]
  /\ UNCHANGED <<app_state, USERS_LOCK, STATE_LOCK, rounds>>

\* check_readiness, first block: the predicate over the roster, USERS_LOCK
\* taken and released
CrSnapshot(t) ==
  /\ th[t].pc = "cr_snapshot"
  /\ USERS_LOCK = 0
  /\ th' = [th EXCEPT ![t].pc =
              IF ReadinessMet(usersdb) THEN "cr_state" ELSE "ready_flag"]
  /\ UNCHANGED <<usersdb, app_state, USERS_LOCK, STATE_LOCK, rounds>>

\* check_readiness, second block: STATE_LOCK is taken and the phase tested
CrState(t, keep) ==
  /\ th[t].pc = "cr_state"
  /\ STATE_LOCK = 0
  /\ IF app_state.state = WAITING_FOR_NEW_PLAYERS
     THEN \* the rotation is to be captured: USERS_LOCK is needed
          /\ STATE_LOCK' = t
          /\ th' = [th EXCEPT ![t].pc = "cr_order"]
          /\ UNCHANGED <<app_state, rounds>>
     ELSE IF app_state.state = WAITING_FOR_PLAYERS
     THEN IF app_state.reader_order = None
          THEN \* assert app_state.reader_order is not None
               /\ app_state' = [app_state EXCEPT !.state = GAME_WAITING_FOR_DEFINITIONS]
               /\ th' = [th EXCEPT ![t] = Reply(keep, "ready", "500", FALSE)]
               /\ rounds' = rounds + 1
               /\ STATE_LOCK' = STATE_LOCK
          ELSE /\ app_state' = StartRound(app_state)
               /\ th' = [th EXCEPT ![t].pc = "cr_roles",
                                   ![t].reader = ChosenReader(app_state)]
               /\ rounds' = rounds + 1
               /\ STATE_LOCK' = t
     ELSE /\ th' = [th EXCEPT ![t].pc = "ready_flag"]
          /\ UNCHANGED <<app_state, rounds, STATE_LOCK>>
  /\ UNCHANGED <<usersdb, USERS_LOCK>>

\* the rotation is captured under USERS_LOCK (inside STATE_LOCK), then the
\* phase is set and the reader chosen
CrOrder(t) ==
  /\ th[t].pc = "cr_order"
  /\ USERS_LOCK = 0
  /\ LET captured == [app_state EXCEPT !.reader_order = Some(Keys(usersdb)),
                                       !.reader_idx = 0]
     IN /\ app_state' = StartRound(captured)
        /\ th' = [th EXCEPT ![t].pc = "cr_roles",
                            ![t].reader = ChosenReader(captured)]
  /\ rounds' = rounds + 1
  /\ UNCHANGED <<usersdb, USERS_LOCK, STATE_LOCK>>

\* the roles are assigned under USERS_LOCK (inside STATE_LOCK); both released
CrRoles(t) ==
  /\ th[t].pc = "cr_roles"
  /\ USERS_LOCK = 0
  /\ usersdb' = AssignRoles(usersdb, th[t].reader)
  /\ STATE_LOCK' = 0
  /\ th' = [th EXCEPT ![t].pc = "ready_flag", ![t].reader = 0]
  /\ UNCHANGED <<app_state, USERS_LOCK, rounds>>

\* started_flag is read under STATE_LOCK and the reply sent
ReadyFlag(t, keep) ==
  /\ th[t].pc = "ready_flag"
  /\ STATE_LOCK = 0
  /\ th' = [th EXCEPT ![t] =
              Reply(keep, "ready", "200", app_state.state # WAITING_FOR_NEW_PLAYERS)]
  /\ UNCHANGED <<usersdb, app_state, USERS_LOCK, STATE_LOCK, rounds>>

\* ----------------------------------------------------- recorded requests

\* the requests a client may send to a handler that reads the fields of T:
\* any caller with any body or, when it sends its last request once more,
\* that request
Requests(t, T) ==
  IF th[t].pc = "retry" THEN {th[t].call}
  ELSE [who : Callers, text : Fields(T), word : Fields(T)]

\* the thread is free for a request to `oper`
Begins(t, oper) == th[t].pc = "idle" \/ (th[t].pc = "retry" /\ th[t].op = oper)

\* the thread as it enters the handler `oper` with request c
Called(t, oper, c) ==
  [IdleThread EXCEPT !.op = oper, !.call = c, !.again = (th[t].pc = "retry")]

\* ------------------------------------------------------- reading_restart

\* a restart that reopens the registration
ResetSessionToRegistration(a) ==
  [a EXCEPT !.state = WAITING_FOR_NEW_PLAYERS, !.word = None]

\* a restart that also forgets the rotation order
ResetSessionForgetOrder(a) ==
  [a EXCEPT !.state = WAITING_FOR_PLAYERS, !.word = None, !.reader_order = None]

\* a restart that also rewinds the rotation
ResetSessionRewind(a) ==
  [a EXCEPT !.state = WAITING_FOR_PLAYERS, !.word = None, !.reader_idx = 0]

\* app_state.state = WAITING_FOR_PLAYERS; app_state.word = None
ResetSession(a) == [a EXCEPT !.state = WAITING_FOR_PLAYERS, !.word = None]

\* every user back to ENTERING with an empty text
ResetUsers(db) ==
  [i \in 1..Len(db) |-> [db[i] EXCEPT !.state = ENTERING, !.text = << >>]]

\* POST /game/reading/restart: only the reader may restart; an unknown user
\* gets 404, any other role 403
RestartCheck(t, keep) ==
  /\ th[t].pc = "idle"
  /\ USERS_LOCK = 0
  /\ \/ /\ Unknown # {}
        /\ th' = [th EXCEPT ![t] = Reply(keep, "restart", "404", FALSE)]
     \/ /\ RolesHeld(usersdb) \ {READER} # {}
        /\ th' = [th EXCEPT ![t] = Reply(keep, "restart", "403", FALSE)]
     \/ /\ Holders(usersdb, READER) # {}
        /\ th' = [th EXCEPT ![t] =
                    [IdleThread EXCEPT !.pc = "restart_state", !.op = "restart"]]
  /\ UNCHANGED <<usersdb, app_state, USERS_LOCK, STATE_LOCK, rounds>>

RestartState(t) ==
  /\ th[t].pc = "restart_state"
  /\ STATE_LOCK = 0
  /\ app_state' = ResetSession(app_state)
  /\ th' = [th EXCEPT ![t].pc = "restart_users"]
  /\ UNCHANGED <<usersdb, USERS_LOCK, STATE_LOCK, rounds>>

RestartUsers(t, keep) ==
  /\ th[t].pc = "restart_users"
  /\ USERS_LOCK = 0
  /\ usersdb' = ResetUsers(usersdb)
  /\ th' = [th EXCEPT ![t] = ReplyOf(th[t], keep, "restart", "200", TRUE)]
  /\ UNCHANGED <<app_state, USERS_LOCK, STATE_LOCK, rounds>>

\* a restart that any participant of the round may ask for
MayRestartInRound(role) == role \in {READER, PLAYER}

\* user.state is UserState.READER
MayRestart(role) == role = READER

\* reading_restart up to its role test, for a recorded request: 404 for an
\* unknown user, 403 unless the user is the reader
RestartCall(t) ==
  /\ Begins(t, "restart")
  /\ USERS_LOCK = 0
  /\ \E c \in Requests(t, {}) :
       LET me == Called(t, "restart", c)
           role == RoleOf(usersdb, c.who)
       IN th' = [th EXCEPT ![t] =
                   IF c.who \notin KeySet(usersdb)
                   THEN ReplyOf(me, TRUE, "restart", "404", FALSE)
                   ELSE IF ~MayRestart(role)
                   THEN ReplyOf(me, TRUE, "restart", "403", FALSE)
                   ELSE [me EXCEPT !.pc = "restart_state"]]
  /\ UNCHANGED <<usersdb, app_state, USERS_LOCK, STATE_LOCK, rounds>>

\* ----------------------------------------------------------- play_submit

\* a completion test that counts every player
PlayerSubmittedAlways(u) == TRUE

\* a completion test that forgets strip()
PlayerSubmittedNoStrip(u) == u.text # << >>

\* a player counts once its text is non-empty after strip()
PlayerSubmitted(u) == Filled(Some(u.text))

\* the reader counts once app_state.word is non-empty after strip()
WordSubmitted(a) == Filled(a.word)

\* the completion loop over usersdb.values() from position i, under
\* USERS_LOCK: it stops at a player without text (all_submitted = False), at
\* a reader (STATE_LOCK is needed to look at the word) or at the end
RECURSIVE Scan(_, _)
Scan(db, i) ==
  IF i > Len(db) THEN [kind |-> "end", i |-> i]
  ELSE IF db[i].state = PLAYER
  THEN IF PlayerSubmitted(db[i]) THEN Scan(db, i + 1) ELSE [kind |-> "fail", i |-> i]
  ELSE IF db[i].state = READER THEN [kind |-> "reader", i |-> i]
  ELSE Scan(db, i + 1)

\* what the thread does with the outcome of the loop
AfterScan(t, r, keep) ==
  IF r.kind = "fail"
  THEN /\ USERS_LOCK' = 0
       /\ th' = [th EXCEPT ![t] = ReplyOf(th[t], keep, "submit", "200", FALSE)]
  ELSE /\ USERS_LOCK' = t
       /\ th' = [th EXCEPT ![t].pc = IF r.kind = "reader" THEN "submit_reader"
                                                          ELSE "submit_decide",
                           ![t].i = IF r.kind = "reader" THEN r.i ELSE 0]

\* a validation that takes an empty word from the reader
BadPayloadEmptyWord(role, text, word) ==
  \/ role = PLAYER /\ text = None
  \/ role = READER /\ (word = None \/ ~Truthy(text))

\* the payload a handler refuses for the role: a player needs `text`, a
\* reader a non-empty `word` and a non-empty `text`
BadPayload(role, text, word) ==
  \/ role = PLAYER /\ text = None
  \/ role = READER /\ (~Truthy(word) \/ ~Truthy(text))

\* POST /game/play/submit: the role is read under USERS_LOCK, then the
\* payload is validated for that role: 404 for an unknown user, 400 for a
\* role that does not submit or a payload the role refuses
SubmitRole(t, T, keep) ==
  /\ th[t].pc = "idle"
  /\ USERS_LOCK = 0
  /\ \/ /\ Unknown # {}
        /\ th' = [th EXCEPT ![t] = Reply(keep, "submit", "404", FALSE)]
     \/ /\ RolesHeld(usersdb) \ {PLAYER, READER} # {}
        /\ th' = [th EXCEPT ![t] = Reply(keep, "submit", "400", FALSE)]
     \/ /\ \E r \in RolesHeld(usersdb) :
             {x \in Fields(T) \X Fields(T) : BadPayload(r, x[1], x[2])} # {}
        /\ th' = [th EXCEPT ![t] = Reply(keep, "submit", "400", FALSE)]
     \/ \E n \in Holders(usersdb, PLAYER),
           text \in {f \in Fields(T) : ~BadPayload(PLAYER, f, None)} :
          th' = [th EXCEPT ![t] =
                   [IdleThread EXCEPT !.pc = "submit_text", !.op = "submit",
                                      !.username = n, !.role = PLAYER,
                                      !.text = text]]
     \/ \E n \in Holders(usersdb, READER),
           x \in {y \in Fields(T) \X Fields(T) : ~BadPayload(READER, y[1], y[2])} :
          th' = [th EXCEPT ![t] =
                   [IdleThread EXCEPT !.pc = "submit_text", !.op = "submit",
                                      !.username = n, !.role = READER,
                                      !.text = x[1], !.word = x[2]]]
  /\ UNCHANGED <<usersdb, app_state, USERS_LOCK, STATE_LOCK, rounds>>

\* a role test that lets a user who is ready submit
SubmitsWhenReady(role) == role \in {PLAYER, READER, READY}

\* role is UserState.PLAYER, or role is UserState.READER
Submits(role) == role \in {PLAYER, READER}

\* the replies of play_submit that refuse a request
NOT_FOUND == "404"
INVALID_ROLE == "400 user not in a valid role for submissions"
INVALID_BODY == "400 text, or word and text, is required"

\* play_submit up to the validation of the body, for a recorded request
SubmitCall(t, T) ==
  /\ Begins(t, "submit")
  /\ USERS_LOCK = 0
  /\ \E c \in Requests(t, T) :
       LET me == Called(t, "submit", c)
           role == RoleOf(usersdb, c.who)
       IN th' = [th EXCEPT ![t] =
                   IF c.who \notin KeySet(usersdb)
                   THEN ReplyOf(me, TRUE, "submit", NOT_FOUND, FALSE)
                   ELSE IF ~Submits(role)
                   THEN ReplyOf(me, TRUE, "submit", INVALID_ROLE, FALSE)
                   ELSE IF BadPayload(role, c.text, c.word)
                   THEN ReplyOf(me, TRUE, "submit", INVALID_BODY, FALSE)
                   ELSE [me EXCEPT !.pc = "submit_text", !.username = c.who,
                                   !.role = role, !.text = c.text,
                                   !.word = IF role = READER THEN c.word ELSE None]]
  /\ UNCHANGED <<usersdb, app_state, USERS_LOCK, STATE_LOCK, rounds>>

\* user.text = str(text), under USERS_LOCK
SubmitText(t) ==
  /\ th[t].pc = "submit_text"
  /\ USERS_LOCK = 0
  /\ usersdb' = SetText(usersdb, Get(usersdb, th[t].username), th[t].text[1])
  /\ th' = [th EXCEPT ![t].pc = IF th[t].role = PLAYER THEN "submit_check"
                                                       ELSE "submit_word",
                      ![t].text = None, ![t].username = 0, ![t].role = "none"]
  /\ UNCHANGED <<app_state, USERS_LOCK, STATE_LOCK, rounds>>

\* app_state.word = str(word), under STATE_LOCK (reader only)
SubmitWord(t) ==
  /\ th[t].pc = "submit_word"
  /\ STATE_LOCK = 0
  /\ app_state' = [app_state EXCEPT !.word = th[t].word]
  /\ th' = [th EXCEPT ![t].pc = "submit_check", ![t].word = None]
  /\ UNCHANGED <<usersdb, USERS_LOCK, STATE_LOCK, rounds>>

\* the completion check starts: USERS_LOCK is taken and the loop runs up to
\* the first point that needs STATE_LOCK
SubmitCheck(t, keep) ==
  /\ th[t].pc = "submit_check"
  /\ USERS_LOCK = 0
  /\ AfterScan(t, Scan(usersdb, 1), keep)
  /\ UNCHANGED <<usersdb, app_state, STATE_LOCK, rounds>>

\* the loop is at a reader: STATE_LOCK is taken (inside USERS_LOCK), the word
\* tested, STATE_LOCK released, and the loop goes on
SubmitReader(t, keep) ==
  /\ th[t].pc = "submit_reader"
  /\ STATE_LOCK = 0
  /\ IF WordSubmitted(app_state)
     THEN AfterScan(t, Scan(usersdb, th[t].i + 1), keep)
     ELSE AfterScan(t, [kind |-> "fail", i |-> th[t].i], keep)
  /\ UNCHANGED <<usersdb, app_state, STATE_LOCK, rounds>>

\* all_submitted: the phase is set under STATE_LOCK (inside USERS_LOCK)
SubmitDecide(t, keep) ==
  /\ th[t].pc = "submit_decide"
  /\ STATE_LOCK = 0
  /\ app_state' = [app_state EXCEPT !.state = GAME_WAITING_FOR_DECISION_IRL]
  /\ USERS_LOCK' = 0
  /\ th' = [th EXCEPT ![t] = ReplyOf(th[t], keep, "submit", "200", TRUE)]
  /\ UNCHANGED <<usersdb, STATE_LOCK, rounds>>

\* ---------------------------------------------------------------- reading

\* how many of the users at the positions I have each text
TextCount(db, I) ==
  [x \in {db[i].text : i \in I} |-> Cardinality({i \in I : db[i].text = x})]

\* the users whose text goes into the list: u.text is not None and u.text != ""
Shown(db) == {i \in 1..Len(db) : db[i].text # << >>}

\* a page that shows the texts to the players as well
SeesTextsInRound(role) == role \in {READER, PLAYER}

\* user_state == UserState.READER.value
SeesTexts(role) == role = READER

\* GET /game/reading, under USERS_LOCK: the role of the caller is read, and
\* for the reader the texts are collected and shuffled
ReadingTexts(t) ==
  /\ th[t].pc = "idle"
  /\ USERS_LOCK = 0
  /\ \E n \in Callers :
       LET role == RoleOf(usersdb, n)
       IN th' = [th EXCEPT ![t] =
                   [IdleThread EXCEPT
                      !.pc = "reading_word", !.op = "reading", !.role = role,
                      !.player_texts = IF SeesTexts(role)
                                       THEN TextCount(usersdb, Shown(usersdb))
                                       ELSE << >>]]
  /\ UNCHANGED <<usersdb, app_state, USERS_LOCK, STATE_LOCK, rounds>>

\* the word is read under STATE_LOCK and the page rendered with user_state,
\* game_word and player_texts
ReadingWord(t) ==
  /\ th[t].pc = "reading_word"
  /\ STATE_LOCK = 0
  /\ th' = [th EXCEPT ![t].pc = "done", ![t].status = "200",
                      ![t].word = app_state.word]
  /\ UNCHANGED <<usersdb, app_state, USERS_LOCK, STATE_LOCK, rounds>>

\* ------------------------------------------------------- specifications

\* every step but the first one of reading_restart and of play_submit
Body(t, maxr, keep) ==
  \/ LandingRead(t, keep)
  \/ LandingInsert(t, keep)
  \/ ReadySet(t, maxr, keep)
  \/ CrSnapshot(t)
  \/ CrState(t, keep)
  \/ CrOrder(t)
  \/ CrRoles(t)
  \/ ReadyFlag(t, keep)
  \/ RestartState(t)
  \/ RestartUsers(t, keep)
  \/ SubmitText(t)
  \/ SubmitWord(t)
  \/ SubmitCheck(t, keep)
  \/ SubmitReader(t, keep)
  \/ SubmitDecide(t, keep)

Step(t, T, maxr, keep) ==
  \/ RestartCheck(t, keep)
  \/ SubmitRole(t, T, keep)
  \/ Body(t, maxr, keep)

\* the reply is sent and the thread is free for the next request
Return(t) ==
  /\ th[t].pc = "done"
  /\ th' = [th EXCEPT ![t] = IdleThread]
  /\ UNCHANGED <<usersdb, app_state, USERS_LOCK, STATE_LOCK, rounds>>

\* request threads run concurrently; their replies are not looked at
Next == \E t \in Threads : Step(t, ConcTexts, ConcRounds, FALSE)

Spec == Init /\ [][Next]_vars

\* one request at a time: every call returns before the next one starts,
\* and its reply stays readable until then
NextSeq == Step(1, Texts, MaxRounds, TRUE) \/ Return(1)

SpecSeq == Init /\ [][NextSeq]_vars

\* the client sends the request it has just been answered once more
Retry(t) ==
  /\ th[t].pc = "done"
  /\ th[t].op \in {"restart", "submit"}
  /\ th' = [th EXCEPT ![t] = [IdleThread EXCEPT !.pc = "retry", !.op = th[t].op,
                                                !.call = th[t].call]]
  /\ UNCHANGED <<usersdb, app_state, USERS_LOCK, STATE_LOCK, rounds>>

\* one request at a time, each recorded with its reply; a restart or a submit
\* may be sent twice in succession. The reading page changes nothing, so it
\* is requested only here, where its reply is looked at.
NextCalls ==
  \/ ReadingTexts(1)
  \/ ReadingWord(1)
  \/ RestartCall(1)
  \/ SubmitCall(1, ConcTexts)
  \/ Body(1, ConcRounds, TRUE)
  \/ Return(1)
  \/ Retry(1)

SpecCalls == Init /\ [][NextCalls]_vars

\* one request at a time, every submit recorded with its reply, its text and
\* word being empty, blank or with content
NextTexts ==
  \/ SubmitCall(1, Texts)
  \/ RestartCheck(1, TRUE)
  \/ Body(1, TextRounds, TRUE)
  \/ Return(1)

SpecTexts == Init /\ [][NextTexts]_vars

\* ------------------------------------------------------------ properties

phase == app_state.state

Users == 1..Len(usersdb)

\* no request is under way
Quiescent == \A t \in Threads : th[t].pc \in {"idle", "done", "retry"}

InRound(p) == p \in {GAME_WAITING_FOR_DEFINITIONS, GAME_WAITING_FOR_DECISION_IRL}

Waiting(p) == p \in {WAITING_FOR_NEW_PLAYERS, WAITING_FOR_PLAYERS}

\* exactly one reader, everybody else a player
RolesIntact ==
  /\ Cardinality({i \in Users : usersdb[i].state = READER}) = 1
  /\ \A i \in Users : usersdb[i].state \in {READER, PLAYER}

\* every player has a text and the word is set, both non-empty once trimmed
Complete ==
  /\ \A i \in Users : usersdb[i].state = PLAYER => Strip(usersdb[i].text) # << >>
  /\ app_state.word # None
  /\ Strip(app_state.word[1]) # << >>

\* C1: between calls, while the phase is Definition or Decision, exactly one
\* participant is Reader and every other participant is Player.
C1_OneReaderInRound == (Quiescent /\ InRound(phase)) => RolesIntact

\* C2: whenever the phase changes to Definition, the roster has at least
\* MINIMUM_PLAYERS participants and every one of them is Ready.
C2_StartOnlyWhenReady ==
  [][(phase # GAME_WAITING_FOR_DEFINITIONS /\ phase' = GAME_WAITING_FOR_DEFINITIONS)
       => ReadinessMet(usersdb)]_vars

\* C3: a participant is added to the roster only while the phase is
\* Registration, also when the registration runs beside the call that starts
\* the game.
C3_InsertOnlyInRegistration ==
  [][KeySet(usersdb') # KeySet(usersdb) => phase = WAITING_FOR_NEW_PLAYERS]_vars

\* the position, in registration order, of the reader of round n among k
ReaderOfRound(n, k) == ((n - 1) % k) + 1

\* C4: with calls one at a time, the Reader of round n is participant
\* ((n-1) mod K) of the registration order, and the rotation index has advanced
\* by one modulo K at every round.
C4_ReaderRotation ==
  (rounds >= 1 /\ app_state.reader_order # None) =>
    LET k == Len(usersdb)
    IN /\ k >= MINIMUM_PLAYERS
       /\ app_state.reader_idx = rounds % k
       /\ \A i \in Users : usersdb[i].state = READER => i = ReaderOfRound(rounds, k)
       /\ (InRound(phase) /\ \A i \in Users : usersdb[i].state \in {READER, PLAYER})
            => usersdb[ReaderOfRound(rounds, k)].state = READER

\* the fourth round of three participants is read by the first one again
C4_Witness ==
  /\ Quiescent
  /\ rounds = 4
  /\ Len(usersdb) = 3
  /\ phase = GAME_WAITING_FOR_DECISION_IRL
  /\ usersdb[1].state = READER
  /\ usersdb[2].state = PLAYER /\ usersdb[2].text = <<"a">>
  /\ usersdb[3].state = PLAYER /\ usersdb[3].text = <<"a">>

\* C5: the phase is set to Decision only when every Player has a text and the
\* word is set, both non-empty once trimmed.
C5_DecisionOnlyWhenComplete ==
  [][(phase # GAME_WAITING_FOR_DECISION_IRL /\ phase' = GAME_WAITING_FOR_DECISION_IRL)
       => Complete']_vars

\* the completion check of a submit ends in this step
SubmitEnds ==
  /\ th[1].pc \in {"submit_check", "submit_reader", "submit_decide"}
  /\ th'[1].pc = "done"

\* C6: with calls one at a time and the roles of the round in place, a submit
\* made during Definition moves the phase to Decision exactly when, with its
\* payload stored, every Player has a text and the word is set (non-empty once
\* trimmed); nothing else moves the phase from Definition to Decision.
C6_DecisionExactlyWhenComplete ==
  [][/\ (phase = GAME_WAITING_FOR_DEFINITIONS /\ RolesIntact /\ SubmitEnds)
          => (phase' = GAME_WAITING_FOR_DECISION_IRL <=> Complete)
     /\ (phase = GAME_WAITING_FOR_DEFINITIONS /\ phase' = GAME_WAITING_FOR_DECISION_IRL)
          => th[1].pc = "submit_decide"]_vars

\* a submit has just completed the round, with the reader not last in the roster
C6_Witness ==
  /\ Quiescent
  /\ th[1].op = "submit" /\ th[1].status = "200" /\ th[1].flag
  /\ phase = GAME_WAITING_FOR_DECISION_IRL
  /\ RolesIntact
  /\ Complete
  /\ usersdb[1].state = READER

\* the edges of the phase machine
PhaseEdges ==
  { <<WAITING_FOR_NEW_PLAYERS, GAME_WAITING_FOR_DEFINITIONS>>,
    <<WAITING_FOR_PLAYERS, GAME_WAITING_FOR_DEFINITIONS>>,
    <<GAME_WAITING_FOR_DEFINITIONS, GAME_WAITING_FOR_DECISION_IRL>>,
    <<GAME_WAITING_FOR_DECISION_IRL, WAITING_FOR_PLAYERS>> }

\* C7: the phase changes only along Registration->Definition,
\* AwaitingRoles->Definition, Definition->Decision and Decision->AwaitingRoles.
C7_PhaseEdges == [][phase' # phase => <<phase, phase'>> \in PhaseEdges]_vars

\* C8: no state that another call can look at (both locks free) has the phase
\* AwaitingRoles or Registration while a participant is still Reader or Player.
C8_RestartAtomic ==
  (USERS_LOCK = 0 /\ STATE_LOCK = 0 /\ Waiting(phase))
    => \A i \in Users : usersdb[i].state \notin {READER, PLAYER}

\* a call that holds STATE_LOCK and waits for USERS_LOCK
HoldsStateWantsUsers(t) == STATE_LOCK = t /\ th[t].pc \in {"cr_order", "cr_roles"}

\* a call that holds USERS_LOCK and waits for STATE_LOCK
HoldsUsersWantsState(t) ==
  USERS_LOCK = t /\ th[t].pc \in {"submit_reader", "submit_decide"}

\* C9: no call holds the session lock and waits for the roster lock while
\* another holds the roster lock and waits for the session lock.
C9_NoDeadlock ==
  ~ \E a \in Threads, b \in Threads :
      a # b /\ HoldsStateWantsUsers(a) /\ HoldsUsersWantsState(b)

\* a step of the restart handler
RestartStep ==
  \/ th[1].pc \in {"restart_state", "restart_users"}
  \/ th[1].pc = "idle" /\ th'[1].op = "restart"

\* the restart handler returns success in this step
RestartEnds == th[1].pc = "restart_users" /\ th'[1].pc = "done"

\* C10: with calls one at a time, a restart by the Reader ends with the phase
\* AwaitingRoles, the word unset and every participant Entering with an empty
\* text, and no step of it changes the rotation order, the rotation index or
\* who is in the roster.
C10_RestartEffect ==
  [][/\ RestartStep =>
          /\ app_state'.reader_order = app_state.reader_order
          /\ app_state'.reader_idx = app_state.reader_idx
          /\ Keys(usersdb') = Keys(usersdb)
     /\ RestartEnds =>
          /\ phase' = WAITING_FOR_PLAYERS
          /\ app_state'.word = None
          /\ \A i \in 1..Len(usersdb') :
               usersdb'[i].state = ENTERING /\ usersdb'[i].text = << >>]_vars

\* a restart has returned success after a round whose index had advanced
C10_Witness ==
  /\ Quiescent
  /\ th[1].op = "restart" /\ th[1].status = "200"
  /\ phase = WAITING_FOR_PLAYERS
  /\ app_state.reader_idx = 2
  /\ rounds = 2

\* the handler `oper` takes a request in this step
Enters(oper) ==
  /\ th[1].pc \in {"idle", "retry"}
  /\ th'[1].pc \notin {"idle", "retry"}
  /\ th'[1].op = oper

\* the role of the user the request names, when the request arrives
CallerRole == RoleOf(usersdb, th'[1].call.who)

\* the request is answered `code` in this step and neither the roster nor
\* the session has changed
Refused(code) ==
  /\ th'[1].pc = "done"
  /\ th'[1].status = code
  /\ ~th'[1].flag
  /\ usersdb' = usersdb
  /\ app_state' = app_state

\* C11: a restart requested by a participant who is Player, Ready or Entering
\* is answered 403, and the phase, the word, every role, every text and the
\* rotation are as they were before the request.
C11_RestartRefused ==
  [][(Enters("restart") /\ CallerRole \in {PLAYER, READY, ENTERING})
       => Refused("403")]_vars

\* a player has asked for a restart in the middle of a round and was refused
C11_Witness ==
  /\ th[1].pc = "done" /\ th[1].op = "restart" /\ th[1].status = "403"
  /\ RoleOf(usersdb, th[1].call.who) = PLAYER
  /\ phase = GAME_WAITING_FOR_DEFINITIONS
  /\ app_state.word # None

\* a request field that is missing or holds the empty string
Lacks(field) == field = None \/ field = Some(<< >>)

C13_SubmitRefused ==
  [][Enters("submit") =>
       /\ CallerRole \in {ENTERING, READY} => Refused(INVALID_ROLE)
       /\ th'[1].call.who \notin KeySet(usersdb) => Refused(NOT_FOUND)]_vars

\* a participant who is Ready has sent a text and was refused
C13_Witness ==
  /\ th[1].pc = "done" /\ th[1].op = "submit" /\ th[1].status = INVALID_ROLE
  /\ RoleOf(usersdb, th[1].call.who) = READY
  /\ th[1].call.text = Some(<<"a">>)

\* somebody who never registered has sent a text during a round and was
\* refused
C13_WitnessNotFound ==
  /\ th[1].pc = "done" /\ th[1].op = "submit" /\ th[1].status = NOT_FOUND
  /\ th[1].call.who \notin KeySet(usersdb)
  /\ phase = GAME_WAITING_FOR_DEFINITIONS

\* the roles of the roster, in order
Roles(db) == [i \in 1..Len(db) |-> db[i].state]

\* a step of set_user_ready for a request that arrived during a round
ReadyInRound ==
  /\ InRound(phase)
  /\ Enters("ready") \/ th[1].pc \in {"cr_snapshot", "cr_state", "ready_flag"}

\* C14: a markReady that arrives while the phase is Definition or Decision
\* changes no participant's role, nor the phase, nor the rotation.
C14_ReadyInertInRound ==
  [][ReadyInRound =>
       /\ Roles(usersdb') = Roles(usersdb)
       /\ phase' = phase
       /\ app_state'.reader_order = app_state.reader_order
       /\ app_state'.reader_idx = app_state.reader_idx]_vars

\* C15: once the rotation order is captured, no step of any request, in any
\* interleaving, changes its members or their order.
C15_OrderFixed ==
  [][app_state.reader_order # None
       => app_state'.reader_order = app_state.reader_order]_vars

\* the second round has started with the order captured for the first one,
\* although the roster has gained a participant since
C15_Witness ==
  /\ rounds = 2
  /\ app_state.reader_order = Some(<<1, 2, 3>>)
  /\ Len(usersdb) = 4
  /\ phase = GAME_WAITING_FOR_DEFINITIONS

\* C16: once the phase has left Registration it is never Registration again;
\* the rotation order is written only in Registration, while it is still
\* unset; and every round after the first starts from AwaitingRoles.
C16_RegistrationOnce ==
  [][/\ phase # WAITING_FOR_NEW_PLAYERS => phase' # WAITING_FOR_NEW_PLAYERS
     /\ app_state'.reader_order # app_state.reader_order
          => (phase = WAITING_FOR_NEW_PLAYERS /\ app_state.reader_order = None)
     /\ (rounds >= 1 /\ rounds' = rounds + 1) => phase = WAITING_FOR_PLAYERS]_vars

\* a second round has started, out of AwaitingRoles, and its reader is the
\* second of the order captured in Registration
C16_Witness ==
  /\ rounds = 2
  /\ phase = GAME_WAITING_FOR_DEFINITIONS
  /\ app_state.reader_idx = 2
  /\ app_state.reader_order # None
  /\ RoleOf(usersdb, app_state.reader_order[1][2]) = READER

\* no two entries of the roster have the same name
NoDuplicate(db) ==
  \A i \in 1..Len(db), j \in 1..Len(db) : db[i].name = db[j].name => i = j

\* thread t ends a registration of a user who is already in the roster
ReRegisters(t) ==
  /\ th[t].pc = "landing_insert"
  /\ th'[t].pc # "landing_insert"
  /\ th[t].username \in KeySet(usersdb)

\* C17: however registrations of the same id follow or overlap each other,
\* the roster holds one participant of that id, and a registration of an id
\* that is already there changes neither the role nor the text of anybody.
C17_RegisterIdempotent ==
  [][/\ NoDuplicate(usersdb')
     /\ \A t \in Threads : ReRegisters(t) => usersdb' = usersdb]_vars

\* two registrations of the same id have overlapped: the first has created
\* the participant, who is Ready by now, and the second is about to store
C17_Witness ==
  /\ th[2].pc = "landing_insert"
  /\ th[2].username = 2
  /\ Len(usersdb) = 2
  /\ usersdb[2].name = 2
  /\ usersdb[2].state = READY
  /\ th[1].pc = "idle"

\* C18: when a submit or a restart is sent a second time right after the
\* first, with the same id and body, no step of the second request changes
\* the roster or the session: the state after both is the state after one.
C18_RepeatChangesNothing ==
  [][th[1].again => (usersdb' = usersdb /\ app_state' = app_state)]_vars

\* the submit that completed the round was sent again and accepted again
C18_Witness ==
  /\ th[1].pc = "done" /\ th[1].again
  /\ th[1].op = "submit" /\ th[1].status = "200" /\ th[1].flag
  /\ RoleOf(usersdb, th[1].call.who) = PLAYER
  /\ usersdb[Get(usersdb, th[1].call.who)].text = <<"a">>
  /\ phase = GAME_WAITING_FOR_DECISION_IRL

\* the Reader's restart was sent again: the second one is refused, the
\* Reader being Entering by then
C18_WitnessRestart ==
  /\ th[1].pc = "done" /\ th[1].again
  /\ th[1].op = "restart" /\ th[1].status = "403"
  /\ phase = WAITING_FOR_PLAYERS
  /\ \A i \in Users : usersdb[i].state = ENTERING

\* C19: with the roles of the round in place, the `move` flag of a submit's
\* reply is true exactly when that request has changed the phase from
\* Definition to Decision.
C19_MoveMeansAdvanced ==
  [][(SubmitEnds /\ RolesIntact) =>
       (th'[1].flag <=> (/\ phase = GAME_WAITING_FOR_DEFINITIONS
                         /\ phase' = GAME_WAITING_FOR_DECISION_IRL))]_vars

\* the players whose text is not empty
ShownPlayers(db) == {i \in 1..Len(db) : db[i].text # << >> /\ db[i].state = PLAYER}

\* C20: with the roles of the round in place, the texts the reading page
\* shows to the Reader are, as a collection without order or names, the
\* non-empty texts of the participants who are Player, and nothing else.
C20_ReaderSeesPlayerTexts ==
  (/\ th[1].pc = "done" /\ th[1].op = "reading"
   /\ th[1].role = READER
   /\ RolesIntact)
    => th[1].player_texts = TextCount(usersdb, ShownPlayers(usersdb))

\* C21: the reading page of a caller who is not the Reader carries the word
\* of the session and an empty list of texts, whatever texts the roster
\* holds: it is the same page for any two rosters that differ only in texts.
C21_OthersSeeWordOnly ==
  (th[1].pc = "done" /\ th[1].op = "reading" /\ th[1].role # READER)
    => (th[1].player_texts = << >> /\ th[1].word = app_state.word)

\* a player has been shown the word while the roster holds a text
C21_Witness ==
  /\ th[1].pc = "done" /\ th[1].op = "reading" /\ th[1].role = PLAYER
  /\ th[1].word = Some(<<"a">>)
  /\ Shown(usersdb) # {}

\* C22: whenever the rotation order is set, the rotation index is at least 0
\* and less than the length of the order.
C22_IndexInRange ==
  app_state.reader_order # None
    => app_state.reader_idx \in 0..(Len(app_state.reader_order[1]) - 1)

\* the index has wrapped: three rounds of three participants have started
C22_Witness ==
  /\ rounds = 3
  /\ app_state.reader_order # None
  /\ Len(app_state.reader_order[1]) = 3
  /\ app_state.reader_idx = 0

\* the request c is a submit by a player with a text that is empty or
\* made of whitespace
BlankFromPlayer(c) ==
  /\ RoleOf(usersdb, c.who) = PLAYER
  /\ c.text # None
  /\ Strip(c.text[1]) = << >>

\* C23: with calls one at a time, a submit by a Player whose text is empty
\* or whitespace only is accepted, the text is stored as it was sent, and the
\* request ends with status 200 and move = false, the phase being what it was.
C23_BlankTextStoredNotCounted ==
  [][/\ (Enters("submit") /\ BlankFromPlayer(th'[1].call))
          => th'[1].pc = "submit_text"
     /\ (th[1].pc = "submit_text" /\ BlankFromPlayer(th[1].call))
          => usersdb'[Get(usersdb, th[1].call.who)].text = th[1].call.text[1]
     /\ (SubmitEnds /\ BlankFromPlayer(th[1].call))
          => /\ th'[1].status = "200"
             /\ ~th'[1].flag
             /\ phase' = phase
             /\ usersdb' = usersdb]_vars

\* a player has sent a blank text when everything else of the round was in:
\* the blank is stored and the round has not moved on
C23_Witness ==
  /\ th[1].pc = "done" /\ th[1].op = "submit" /\ th[1].status = "200"
  /\ ~th[1].flag
  /\ th[1].call.text = Some(<<SP>>)
  /\ RolesIntact
  /\ WordSubmitted(app_state)
  /\ phase = GAME_WAITING_FOR_DEFINITIONS
  /\ \A i \in Users :
       usersdb[i].text = IF usersdb[i].name = th[1].call.who THEN <<SP>> ELSE <<"a">>

\* C24: in every interleaving, when the phase becomes Definition every text
\* of the roster is empty and the word is unset.
C24_CleanSlate ==
  [][(phase # GAME_WAITING_FOR_DEFINITIONS /\ phase' = GAME_WAITING_FOR_DEFINITIONS)
       => /\ \A i \in 1..Len(usersdb') : usersdb'[i].text = << >>
          /\ app_state'.word = None]_vars

\* the ids of a rotation order
OrderSet(order) == {order[i] : i \in 1..Len(order)}

\* C25: whenever the rotation order is set, it holds every id of the roster
\* once and no other id.
C25_OrderIsRoster ==
  app_state.reader_order # None =>
    LET order == app_state.reader_order[1]
    IN /\ OrderSet(order) = KeySet(usersdb)
       /\ Len(order) = Len(usersdb)
       /\ \A i \in 1..Len(order), j \in 1..Len(order) : order[i] = order[j] => i = j

\* C26: between calls, while the phase is Definition or Decision, somebody
\* in the roster is Reader and so is able to restart.
C26_ReaderToRestart ==
  (Quiescent /\ InRound(phase)) => Holders(usersdb, READER) # {}

\* a round without a reader, outside the step that is about to assign one
Readerless ==
  /\ InRound(phase)
  /\ Holders(usersdb, READER) = {}
  /\ th[1].pc # "cr_roles"

\* C26, the way out: with calls one at a time, a round that has lost its
\* reader stays a round without a reader whatever is called next.
C26_NoWayBack == [][Readerless => Readerless']_vars

====
